---- MODULE Spec2Model ----
(***************************************************************************)
(* Model of the nameko-devex gateway (gateway/service.py) together with    *)
(* the orders service and the products service it calls over RPC.          *)
(*                                                                         *)
(* Every RPC is one atomic step of the service that handles it; a gateway  *)
(* handler that issues several RPCs is a sequence of steps, between which  *)
(* the RPCs of other requests may run.                                     *)
(***************************************************************************)
EXTENDS Integers, Sequences, FiniteSets, TLC

VARIABLES
    products,      \* products service: ids of the products in the catalog
    orders,        \* orders service: order id -> sequence of detail rows
    nextOrderId,   \* orders table autoincrement
    nextDetailId,  \* order_details table autoincrement
    events,        \* event_dispatcher.call_args_list: <<event type, payload>>
    ret,           \* outcome of the last RPC issued directly to the orders service
    req,           \* the gateway request in flight
    pages          \* calculate_total_pages applied to drawn inputs

vars == <<products, orders, nextOrderId, nextDetailId, events, ret, req, pages>>

(***************************************************************************)
(* Bounds.                                                                 *)
(***************************************************************************)
MaxOrders == 2      \* orders ever created (caps the autoincrement)
MaxDetails == 2     \* detail lines of one submission
MaxPage == 3        \* page numbers requested
MaxLimit == 2       \* page sizes requested
MaxTotal == 12      \* total_orders drawn for calculate_total_pages
MaxPerPage == 6     \* limit drawn for calculate_total_pages
MaxQuantity == 2    \* quantities an update sets

ProductIds == {"the_odyssey", "the_enigma"}

PRODUCT_IMAGE_ROOT == "http://www.example.com/airship/images"

(***************************************************************************)
(* Python helpers.                                                         *)
(***************************************************************************)
Range(s) == {s[i] : i \in DOMAIN s}

SeqsUpTo(S, n) == UNION {[1..k -> S] : k \in 0..n}

Min(a, b) == IF a < b THEN a ELSE b

\* sorted(S) for a set of integers
RECURSIVE SortedSeq(_)
SortedSeq(S) ==
    IF S = {} THEN <<>>
    ELSE LET m == CHOOSE x \in S : \A y \in S : x <= y
         IN <<m>> \o SortedSeq(S \ {m})

(***************************************************************************)
(* Decimal prices.  A Decimal with two places is its number of cents; on   *)
(* the wire it is the string of its digits, modelled as the sequence of    *)
(* its characters.                                                         *)
(***************************************************************************)
DigitChars == <<"0", "1", "2", "3", "4", "5", "6", "7", "8", "9">>

DigitVal ==
    [c \in {"0", "1", "2", "3", "4", "5", "6", "7", "8", "9"} |->
        CHOOSE d \in 0..9 : DigitChars[d + 1] = c]

\* str(n) for a natural number
RECURSIVE NatToChars(_)
NatToChars(n) ==
    IF n < 10 THEN <<DigitChars[n + 1]>>
    ELSE Append(NatToChars(n \div 10), DigitChars[(n % 10) + 1])

\* int(s[i-1:j]) for a string of digits, acc being the value of the digits read
RECURSIVE CharsToNat(_, _, _, _)
CharsToNat(s, i, j, acc) ==
    IF i > j THEN acc
    ELSE CharsToNat(s, i + 1, j, acc * 10 + DigitVal[s[i]])

\* fields.Decimal(as_string=True) dump of a two-place Decimal: "99.99", "5.99"
FormatPrice(cents) ==
    NatToChars(cents \div 100)
        \o <<".", DigitChars[((cents % 100) \div 10) + 1], DigitChars[(cents % 10) + 1]>>

\* Decimal(str) stored in a DECIMAL(18, 2) column
ParsePrice(s) ==
    LET dot == CHOOSE i \in 1..Len(s) : s[i] = "."
    IN CharsToNat(s, 1, dot - 1, 0) * 100
         + (IF Len(s) - dot = 1 THEN CharsToNat(s, dot + 1, Len(s), 0) * 10
            ELSE CharsToNat(s, dot + 1, Len(s), 0))

(***************************************************************************)
(* Orders service (orders/service.py, orders/schemas.py).                  *)
(***************************************************************************)
OrderIds == DOMAIN orders

\* OrderDetailSchema().dump(row)
DumpDetail(row) ==
    [id |-> row.id, product_id |-> row.product_id,
     price |-> FormatPrice(row.price), quantity |-> row.quantity]

\* OrderSchema().dump(order)
DumpOrder(id, rows) ==
    [id |-> id, order_details |-> [i \in 1..Len(rows) |-> DumpDetail(rows[i])]]

OrderNotFoundError(order_id) ==
    [type |-> "OrderNotFound",
     message |-> "Order with id " \o ToString(order_id) \o " not found"]

NoError == [type |-> "", message |-> ""]

\* rows inserted for a create_order(order_details) call: ids come from the
\* autoincrement, in the order of the submitted lines
NewRows(order_details) ==
    [i \in 1..Len(order_details) |->
        [id |-> nextDetailId + i - 1,
         product_id |-> order_details[i].product_id,
         price |-> ParsePrice(order_details[i].price),
         quantity |-> order_details[i].quantity]]

\* the event built from the rows in reverse order
OrderCreatedEvent_reversed(id, rows) ==
    <<"order_created",
      [order |-> [id |-> id,
                  order_details |->
                      [i \in 1..Len(rows) |-> DumpDetail(rows[Len(rows) + 1 - i])]]]>>

\* payload of the event create_order dispatches
OrderCreatedEvent(id, rows) == <<"order_created", [order |-> DumpOrder(id, rows)]>>

\* create_order: add + commit, then dispatch order_created, then return the dump
create_order(order_details) ==
    /\ orders' = (nextOrderId :> NewRows(order_details)) @@ orders
    /\ nextOrderId' = nextOrderId + 1
    /\ nextDetailId' = nextDetailId + Len(order_details)
    /\ events' = Append(events, OrderCreatedEvent(nextOrderId, NewRows(order_details)))

create_order_result(order_details) == DumpOrder(nextOrderId, NewRows(order_details))

\* create_order when the commit fails: nothing is written, nothing is dispatched
create_order_storage_error ==
    UNCHANGED <<orders, nextOrderId, nextDetailId, events>>

StorageError == [type |-> "StorageError", message |-> "commit failed"]

\* get_order: [status, value | error]
get_order(order_id) ==
    IF order_id \in OrderIds
    THEN [status |-> "ok", value |-> DumpOrder(order_id, orders[order_id]),
          error |-> NoError]
    ELSE [status |-> "error", value |-> DumpOrder(order_id, <<>>),
          error |-> OrderNotFoundError(order_id)]

\* list_orders(skip, limit): query ordered by id, offset skip, limit limit
list_orders(skip, limit) ==
    LET ids == SortedSeq(OrderIds)
        page == SubSeq(ids, skip + 1, Min(skip + limit, Len(ids)))
    IN [i \in 1..Len(page) |-> DumpOrder(page[i], orders[page[i]])]

count_orders == Cardinality(OrderIds)

\* the payload row carrying a detail id, if any
PayloadRows(payload, detail_id) ==
    SelectSeq(payload.order_details, LAMBDA r : r.id = detail_id)

\* update_order that overwrites the quantity only
UpdatedRows_quantity_only(payload) ==
    LET rows == orders[payload.id]
    IN [i \in 1..Len(rows) |->
          LET hits == PayloadRows(payload, rows[i].id)
          IN IF hits = <<>> THEN rows[i]
             ELSE [rows[i] EXCEPT !.quantity = hits[Len(hits)].quantity]]

\* update_order: price and quantity of each stored line are overwritten from the
\* payload line with the same id; lines are neither added nor removed
UpdatedRows(payload) ==
    LET rows == orders[payload.id]
    IN [i \in 1..Len(rows) |->
          LET hits == PayloadRows(payload, rows[i].id)
          IN IF hits = <<>> THEN rows[i]
             ELSE [rows[i] EXCEPT !.price = ParsePrice(hits[Len(hits)].price),
                                  !.quantity = hits[Len(hits)].quantity]]

update_order(payload) ==
    IF payload.id \in OrderIds
    THEN orders' = [orders EXCEPT ![payload.id] = UpdatedRows(payload)]
    ELSE UNCHANGED orders

update_order_result(payload) ==
    IF payload.id \in OrderIds
    THEN [status |-> "ok", value |-> DumpOrder(payload.id, UpdatedRows(payload)),
          error |-> NoError]
    ELSE [status |-> "error", value |-> DumpOrder(payload.id, <<>>),
          error |-> OrderNotFoundError(payload.id)]

\* delete_order that also removes every later order
delete_order_and_later(order_id) ==
    orders' = [id \in {k \in OrderIds : k < order_id} |-> orders[id]]

\* delete_order: removes the order and its lines if present, else does nothing
delete_order(order_id) ==
    orders' = [id \in OrderIds \ {order_id} |-> orders[id]]

(***************************************************************************)
(* Products service, as the gateway's products_rpc proxy sees it.          *)
(***************************************************************************)
Product(product_id) == [id |-> product_id]

ProductNotFoundError(product_id) ==
    [type |-> "ProductNotFound", message |-> "Product Id " \o product_id]

\* products_rpc.list(ids): the products that exist among the requested ids
products_list(ids) ==
    LET found == SelectSeq(ids, LAMBDA p : p \in products)
    IN [i \in 1..Len(found) |-> Product(found[i])]

\* products_rpc.get(product_id) succeeds iff the product is in the catalog
products_has(product_id) == product_id \in products

(***************************************************************************)
(* Inputs.                                                                 *)
(***************************************************************************)
\* catalogue price of a product, in cents
PriceOf(product_id) == IF product_id = "the_odyssey" THEN 9999 ELSE 599

Quantities == 1..MaxQuantity

\* a submitted line after CreateOrderSchema().loads: price is a Decimal
Line(product_id) ==
    [product_id |-> product_id, price |-> PriceOf(product_id), quantity |-> 1]

\* order_data['order_details'] of the submissions: up to MaxDetails lines, each
\* of another product
Submissions ==
    {[i \in 1..Len(ids) |-> Line(ids[i])] :
        ids \in {s \in SeqsUpTo(ProductIds, MaxDetails) :
                    \A i, j \in 1..Len(s) : i # j => s[i] # s[j]}}

\* CreateOrderSchema().dump(order_data).data['order_details']
DumpSubmission(order_details) ==
    [i \in 1..Len(order_details) |->
        [product_id |-> order_details[i].product_id,
         price |-> FormatPrice(order_details[i].price),
         quantity |-> order_details[i].quantity]]

Reverse(s) == [i \in 1..Len(s) |-> s[Len(s) + 1 - i]]

OtherProduct(product_id) == CHOOSE p \in ProductIds : p # product_id

\* update_order payloads for an order id: the dump of the stored order (no lines
\* when the id is not stored) with every quantity set to q and, if reprice, every
\* price set to the dearest catalogue price; and such a payload with a line
\* dropped, the lines reversed, a line's product changed, or a line of no stored
\* order added
UpdatePayloads(order_id) ==
    LET base == get_order(order_id).value.order_details
        set(q, reprice) ==
            [i \in 1..Len(base) |->
                [base[i] EXCEPT !.quantity = q,
                                !.price = IF reprice
                                          THEN FormatPrice(PriceOf("the_odyssey"))
                                          ELSE @]]
        foreign == [id |-> nextDetailId, product_id |-> "the_odyssey",
                    price |-> FormatPrice(PriceOf("the_odyssey")), quantity |-> 1]
        shapes(rows) ==
            {Append(rows, foreign)}
                \cup (IF rows = <<>> THEN {}
                      ELSE {SubSeq(rows, 1, Len(rows) - 1), Reverse(rows),
                            [rows EXCEPT ![1].product_id = OtherProduct(rows[1].product_id)]})
    IN {[id |-> order_id, order_details |-> d] :
            d \in {set(q, r) : q \in Quantities, r \in BOOLEAN}
                    \cup UNION {shapes(set(q, FALSE)) : q \in Quantities}}

(***************************************************************************)
(* RPCs issued directly to the orders service (as the interface tests do). *)
(***************************************************************************)
NoRet == [op |-> "", arg |-> <<>>, status |-> "", value |-> <<>>, error |-> NoError]

Rpc_create_order(order_details) ==
    /\ nextOrderId <= MaxOrders
    /\ create_order(order_details)
    /\ ret' = [op |-> "create_order", arg |-> <<order_details>>, status |-> "ok",
               value |-> <<create_order_result(order_details)>>, error |-> NoError]
    /\ UNCHANGED <<products, req, pages>>

Rpc_create_order_fails(order_details) ==
    /\ nextOrderId <= MaxOrders
    /\ create_order_storage_error
    /\ ret' = [op |-> "create_order", arg |-> <<order_details>>, status |-> "error",
               value |-> <<>>, error |-> StorageError]
    /\ UNCHANGED <<products, req, pages>>

Rpc_get_order(order_id) ==
    /\ LET result == get_order(order_id)
       IN ret' = [op |-> "get_order", arg |-> <<order_id>>,
                  status |-> result.status,
                  value |-> IF result.status = "ok" THEN <<result.value>> ELSE <<>>,
                  error |-> result.error]
    /\ UNCHANGED <<products, orders, nextOrderId, nextDetailId, events, req, pages>>

Rpc_count_orders ==
    /\ ret' = [op |-> "count_orders", arg |-> <<>>, status |-> "ok",
               value |-> <<count_orders>>, error |-> NoError]
    /\ UNCHANGED <<products, orders, nextOrderId, nextDetailId, events, req, pages>>

Rpc_update_order(payload) ==
    /\ update_order(payload)
    /\ LET result == update_order_result(payload)
       IN ret' = [op |-> "update_order", arg |-> <<payload>>,
                  status |-> result.status,
                  value |-> IF result.status = "ok" THEN <<result.value>> ELSE <<>>,
                  error |-> result.error]
    /\ UNCHANGED <<products, nextOrderId, nextDetailId, events, req, pages>>

Rpc_delete_order(order_id) ==
    /\ delete_order(order_id)
    /\ ret' = [op |-> "delete_order", arg |-> <<order_id>>, status |-> "ok",
               value |-> <<>>, error |-> NoError]
    /\ UNCHANGED <<products, nextOrderId, nextDetailId, events, req, pages>>

(***************************************************************************)
(* Gateway (gateway/service.py).  req is the request being handled: pc is  *)
(* the RPC it issues next, calls the RPCs it has issued, response the      *)
(* handler's return value (<<>> until it returns), error what it raised.   *)
(***************************************************************************)
IdleReq ==
    [kind |-> "none", pc |-> "idle", order_id |-> 0, page |-> 0, limit |-> 0,
     order_data |-> <<>>, valid_product_ids |-> <<>>, data |-> <<>>, ii |-> 1,
     calls |-> {}, error |-> NoError, response |-> <<>>]

\* the (order, line) positions of `for order in orders: for item in order['order_details']`
RECURSIVE ItemPositions(_, _)
ItemPositions(data, oi) ==
    IF oi > Len(data) THEN <<>>
    ELSE [i \in 1..Len(data[oi].order_details) |-> <<oi, i>>]
            \o ItemPositions(data, oi + 1)

ItemAt(data, pos) == data[pos[1]].order_details[pos[2]]

\* item['product'] = product; item['image'] = image
Enrich(data, pos, image) ==
    [data EXCEPT ![pos[1]].order_details[pos[2]] =
        [product |-> Product(@.product_id), image |-> image] @@ @]

\* '{}/{}.jpg'.format(image_root, product_id)
ImageUrl(product_id) == PRODUCT_IMAGE_ROOT \o "/" \o product_id \o ".jpg"

PlaceholderImage == "https://picsum.photos/300"

\* total_orders // limit, the pages that are full
calculate_total_pages_floor(total_orders, limit) == total_orders \div limit

calculate_total_pages(total_orders, limit) == (total_orders + limit - 1) \div limit

\* skip of a 0-indexed page
Skip_zero_indexed(page, limit) == page * limit

Skip(page, limit) == (page - 1) * limit

\* create_product / delete_product: one products_rpc call each
create_product(product_id) ==
    /\ products' = products \cup {product_id}
    /\ UNCHANGED <<orders, nextOrderId, nextDetailId, events, ret, req, pages>>

delete_product(product_id) ==
    /\ products' = products \ {product_id}
    /\ UNCHANGED <<orders, nextOrderId, nextDetailId, events, ret, req, pages>>

\* _get_order that takes a failed get_order for an order without lines
GetOrder_fetch_swallows_error(order_id) ==
    /\ req.pc = "idle"
    /\ LET r == get_order(order_id)
           started == [IdleReq EXCEPT !.kind = "get", !.order_id = order_id,
                                      !.calls = {"orders.get_order"}]
       IN req' = IF r.value.order_details = <<>>
                 THEN [started EXCEPT !.pc = "done", !.data = <<r.value>>,
                                      !.response = <<r.value>>]
                 ELSE [started EXCEPT !.pc = "enrich", !.data = <<r.value>>]
    /\ UNCHANGED <<products, orders, nextOrderId, nextDetailId, events, ret, pages>>

\* _get_order: order = self.orders_rpc.get_order(order_id)
GetOrder_fetch(order_id) ==
    /\ req.pc = "idle"
    /\ LET r == get_order(order_id)
           started == [IdleReq EXCEPT !.kind = "get", !.order_id = order_id,
                                      !.calls = {"orders.get_order"}]
       IN req' = IF r.status = "error"
                 THEN [started EXCEPT !.pc = "failed", !.error = r.error]
                 ELSE IF r.value.order_details = <<>>
                 THEN [started EXCEPT !.pc = "done", !.data = <<r.value>>,
                                      !.response = <<r.value>>]
                 ELSE [started EXCEPT !.pc = "enrich", !.data = <<r.value>>]
    /\ UNCHANGED <<products, orders, nextOrderId, nextDetailId, events, ret, pages>>

\* _get_order: one turn of the loop, item['product'] = self.products_rpc.get(product_id)
GetOrder_enrich ==
    /\ req.kind = "get" /\ req.pc = "enrich"
    /\ LET positions == ItemPositions(req.data, 1)
           pos == positions[req.ii]
           product_id == ItemAt(req.data, pos).product_id
           called == [req EXCEPT !.calls = @ \cup {"products.get"}]
           data == Enrich(req.data, pos, ImageUrl(product_id))
       IN req' = IF ~products_has(product_id)
                 THEN [called EXCEPT !.pc = "failed",
                                     !.error = ProductNotFoundError(product_id)]
                 ELSE IF req.ii = Len(positions)
                 THEN [called EXCEPT !.pc = "done", !.data = data, !.ii = @ + 1,
                                     !.response = <<data[1]>>]
                 ELSE [called EXCEPT !.data = data, !.ii = @ + 1]
    /\ UNCHANGED <<products, orders, nextOrderId, nextDetailId, events, ret, pages>>

\* _list_orders / fetch_orders: orders = self.orders_rpc.list_orders(skip, limit)
ListOrders_fetch(page, limit) ==
    /\ req.pc = "idle"
    /\ req' = [IdleReq EXCEPT !.kind = "list", !.pc = "batch", !.page = page,
                              !.limit = limit,
                              !.data = list_orders(Skip(page, limit), limit),
                              !.calls = {"orders.list_orders"}]
    /\ UNCHANGED <<products, orders, nextOrderId, nextDetailId, events, ret, pages>>

\* fetch_orders: products = self.products_rpc.list(list(product_ids)); unused
ListOrders_batch ==
    /\ req.kind = "list" /\ req.pc = "batch"
    /\ req' = [req EXCEPT !.pc = IF ItemPositions(req.data, 1) = <<>>
                                 THEN "count" ELSE "enrich",
                          !.calls = @ \cup {"products.list"}]
    /\ UNCHANGED <<products, orders, nextOrderId, nextDetailId, events, ret, pages>>

\* fetch_orders that leaves a line without product when its product is missing
ListOrders_enrich_skips_missing ==
    /\ req.kind = "list" /\ req.pc = "enrich"
    /\ LET positions == ItemPositions(req.data, 1)
           pos == positions[req.ii]
           product_id == ItemAt(req.data, pos).product_id
           called == [req EXCEPT !.calls = @ \cup {"products.get"}]
           data == IF products_has(product_id)
                   THEN Enrich(req.data, pos, PlaceholderImage) ELSE req.data
       IN req' = [called EXCEPT !.data = data, !.ii = @ + 1,
                                !.pc = IF req.ii = Len(positions)
                                       THEN "count" ELSE "enrich"]
    /\ UNCHANGED <<products, orders, nextOrderId, nextDetailId, events, ret, pages>>

\* fetch_orders: one turn of the second loop
ListOrders_enrich ==
    /\ req.kind = "list" /\ req.pc = "enrich"
    /\ LET positions == ItemPositions(req.data, 1)
           pos == positions[req.ii]
           product_id == ItemAt(req.data, pos).product_id
           called == [req EXCEPT !.calls = @ \cup {"products.get"}]
           data == Enrich(req.data, pos, PlaceholderImage)
       IN req' = IF ~products_has(product_id)
                 THEN [called EXCEPT !.pc = "failed",
                                     !.error = ProductNotFoundError(product_id)]
                 ELSE [called EXCEPT !.data = data, !.ii = @ + 1,
                                     !.pc = IF req.ii = Len(positions)
                                            THEN "count" ELSE "enrich"]
    /\ UNCHANGED <<products, orders, nextOrderId, nextDetailId, events, ret, pages>>

\* the envelope _list_orders returns
Envelope(total_orders, page, limit, data) ==
    [total_orders |-> total_orders,
     total_pages |-> calculate_total_pages(total_orders, limit),
     page |-> page,
     orders |-> data]

\* _list_orders that counts the orders of the page it fetched
ListOrders_count_of_page ==
    /\ req.kind = "list" /\ req.pc = "count"
    /\ req' = [req EXCEPT !.pc = "done",
                          !.calls = @ \cup {"orders.count_orders"},
                          !.response =
                              <<Envelope(Len(req.data), req.page, req.limit, req.data)>>]
    /\ UNCHANGED <<products, orders, nextOrderId, nextDetailId, events, ret, pages>>

\* _list_orders: total_orders = self.orders_rpc.count_orders(), then the envelope
ListOrders_count ==
    /\ req.kind = "list" /\ req.pc = "count"
    /\ req' = [req EXCEPT !.pc = "done",
                          !.calls = @ \cup {"orders.count_orders"},
                          !.response =
                              <<Envelope(count_orders, req.page, req.limit, req.data)>>]
    /\ UNCHANGED <<products, orders, nextOrderId, nextDetailId, events, ret, pages>>

\* _create_order: valid_product_ids from self.products_rpc.list(product_ids)
CreateOrder_validate(order_details) ==
    /\ req.pc = "idle"
    /\ LET product_ids == [i \in 1..Len(order_details) |-> order_details[i].product_id]
           listed == products_list(product_ids)
       IN req' = [IdleReq EXCEPT !.kind = "create", !.pc = "validated",
                                 !.order_data = order_details,
                                 !.valid_product_ids =
                                     [i \in 1..Len(listed) |-> listed[i].id],
                                 !.calls = {"products.list"}]
    /\ UNCHANGED <<products, orders, nextOrderId, nextDetailId, events, ret, pages>>

\* the rejected lines, last first
MissingLines_last_first(order_details, valid_product_ids) ==
    Reverse(SelectSeq(order_details,
                      LAMBDA item : item.product_id \notin Range(valid_product_ids)))

\* the membership test applied to the first line only
MissingLines_first_line_only(order_details, valid_product_ids) ==
    SelectSeq(SubSeq(order_details, 1, Min(1, Len(order_details))),
              LAMBDA item : item.product_id \notin Range(valid_product_ids))

\* the lines the membership loop of _create_order rejects, in submission order
MissingLines(order_details, valid_product_ids) ==
    SelectSeq(order_details, LAMBDA item : item.product_id \notin Range(valid_product_ids))

\* _create_order: the membership loop raises at the first line it rejects
CreateOrder_reject ==
    /\ req.kind = "create" /\ req.pc = "validated"
    /\ MissingLines(req.order_data, req.valid_product_ids) # <<>>
    /\ req' = [req EXCEPT !.pc = "failed",
                          !.error = ProductNotFoundError(
                              MissingLines(req.order_data, req.valid_product_ids)[1].product_id)]
    /\ UNCHANGED <<products, orders, nextOrderId, nextDetailId, events, ret, pages>>

\* _create_order: self.orders_rpc.create_order(serialized_data['order_details'])
CreateOrder_submit ==
    /\ req.kind = "create" /\ req.pc = "validated"
    /\ MissingLines(req.order_data, req.valid_product_ids) = <<>>
    /\ nextOrderId <= MaxOrders
    /\ create_order(DumpSubmission(req.order_data))
    /\ req' = [req EXCEPT !.pc = "done",
                          !.calls = @ \cup {"orders.create_order"},
                          !.response =
                              <<create_order_result(DumpSubmission(req.order_data)).id>>]
    /\ UNCHANGED <<products, ret, pages>>

\* _create_order: the orders service fails to commit; the remote error propagates
CreateOrder_submit_fails ==
    /\ req.kind = "create" /\ req.pc = "validated"
    /\ MissingLines(req.order_data, req.valid_product_ids) = <<>>
    /\ nextOrderId <= MaxOrders
    /\ create_order_storage_error
    /\ req' = [req EXCEPT !.pc = "failed",
                          !.calls = @ \cup {"orders.create_order"},
                          !.error = StorageError]
    /\ UNCHANGED <<products, ret, pages>>

\* the entrypoint sends the response (or the error) and the worker ends
Respond ==
    /\ req.pc \in {"done", "failed"}
    /\ req' = IdleReq
    /\ UNCHANGED <<products, orders, nextOrderId, nextDetailId, events, ret, pages>>

\* orders service RPCs of other requests, running between this request's RPCs
Other_create_order(order_details) ==
    /\ nextOrderId <= MaxOrders
    /\ create_order(order_details)
    /\ UNCHANGED <<products, ret, req, pages>>

Other_delete_order(order_id) ==
    /\ delete_order(order_id)
    /\ UNCHANGED <<products, nextOrderId, nextDetailId, events, ret, req, pages>>

(***************************************************************************)
(* calculate_total_pages on drawn inputs.                                  *)
(***************************************************************************)
NoPages == [total_orders |-> 0, limit |-> 1, total_pages |-> <<>>]

Paginate ==
    /\ pages.total_pages = <<>>
    /\ pages' = [pages EXCEPT
                    !.total_pages =
                        <<Envelope(pages.total_orders, 1, pages.limit, <<>>).total_pages>>]
    /\ UNCHANGED <<products, orders, nextOrderId, nextDetailId, events, ret, req>>

Redraw ==
    /\ pages.total_pages # <<>>
    /\ \E t \in 0..MaxTotal, l \in 1..MaxPerPage :
          pages' = [total_orders |-> t, limit |-> l, total_pages |-> <<>>]
    /\ UNCHANGED <<products, orders, nextOrderId, nextDetailId, events, ret, req>>

(***************************************************************************)
(* Specifications.                                                         *)
(***************************************************************************)
InitStore ==
    /\ products = {}
    /\ orders = [id \in {} |-> <<>>]
    /\ nextOrderId = 1
    /\ nextDetailId = 1
    /\ events = <<>>
    /\ ret = NoRet
    /\ req = IdleReq

Init == InitStore /\ pages = NoPages

\* the gateway handling a request while other requests' RPCs run
Next ==
    \/ \E p \in ProductIds : create_product(p)
    \/ \E p \in ProductIds : delete_product(p)
    \/ \E id \in 1..(MaxOrders + 1) : GetOrder_fetch(id)
    \/ GetOrder_enrich
    \/ \E page \in 1..MaxPage, limit \in 1..MaxLimit : ListOrders_fetch(page, limit)
    \/ ListOrders_batch
    \/ ListOrders_enrich
    \/ ListOrders_count
    \/ \E d \in Submissions : CreateOrder_validate(d)
    \/ CreateOrder_reject
    \/ CreateOrder_submit
    \/ CreateOrder_submit_fails
    \/ Respond
    \/ \E d \in Submissions : Other_create_order(DumpSubmission(d))
    \/ \E id \in 1..MaxOrders : Other_delete_order(id)

Spec == Init /\ [][Next]_vars

\* the orders service answering create, get, count and delete RPCs issued
\* directly to it
NextOrders ==
    \/ \E d \in Submissions : Rpc_create_order(DumpSubmission(d))
    \/ \E d \in Submissions : Rpc_create_order_fails(DumpSubmission(d))
    \/ \E id \in 1..(MaxOrders + 1) : Rpc_get_order(id)
    \/ Rpc_count_orders
    \/ \E id \in 1..(MaxOrders + 1) : Rpc_delete_order(id)

SpecOrders == Init /\ [][NextOrders]_vars

\* the same, with update RPCs
NextUpdate ==
    \/ NextOrders
    \/ \E id \in 1..(MaxOrders + 1) : \E payload \in UpdatePayloads(id) :
          Rpc_update_order(payload)

SpecUpdate == Init /\ [][NextUpdate]_vars

\* calculate_total_pages on every drawn (total_orders, limit)
InitPages ==
    /\ InitStore
    /\ \E t \in 0..MaxTotal, l \in 1..MaxPerPage :
          pages = [total_orders |-> t, limit |-> l, total_pages |-> <<>>]

NextPages == Paginate \/ Redraw

SpecPages == InitPages /\ [][NextPages]_vars

(***************************************************************************)
(* Properties.                                                             *)
(***************************************************************************)
Max(a, b) == IF a > b THEN a ELSE b

ProductIdsOf(rows) == {rows[i].product_id : i \in 1..Len(rows)}

\* a step of the gateway request in flight
RequestStep == req' # req

C1_FirstMissing(order_data, valid_product_ids) ==
    LET absent(i) == order_data[i].product_id \notin Range(valid_product_ids)
        first == CHOOSE i \in 1..Len(order_data) :
                    absent(i) /\ \A j \in 1..(i - 1) : ~absent(j)
    IN order_data[first].product_id

\* C1: a submission with a line whose product_id the batch list did not return
\* fails with ProductNotFound naming the first such product_id in submission
\* order, never calls orders_rpc.create_order and leaves the order store (and so
\* count_orders) as it was.
C1_UnknownProductRejected ==
    [][(/\ RequestStep
        /\ req.kind = "create" /\ req.pc = "validated"
        /\ ProductIdsOf(req.order_data) \ Range(req.valid_product_ids) # {})
       => (/\ req'.pc = "failed"
           /\ req'.error.type = "ProductNotFound"
           /\ req'.error.message
                = "Product Id " \o C1_FirstMissing(req.order_data, req.valid_product_ids)
           /\ req'.response = <<>>
           /\ "orders.create_order" \notin req'.calls
           /\ orders' = orders
           /\ Cardinality(DOMAIN orders') = Cardinality(DOMAIN orders)
           /\ events' = events
           /\ nextOrderId' = nextOrderId)]_vars

C1_Witness ==
    /\ req.kind = "create" /\ req.pc = "failed"
    /\ req.error.type = "ProductNotFound"
    /\ Len(req.order_data) = 2
    /\ req.order_data[1].product_id # req.order_data[2].product_id
    /\ req.valid_product_ids = <<>>
    /\ req.error.message = "Product Id " \o req.order_data[1].product_id
    /\ count_orders > 0

\* C2: calculate_total_pages(total_orders, limit) is ceil(total_orders / limit),
\* the smallest p with p * limit >= total_orders, for total_orders >= 0 and
\* limit > 0 (0 for no orders, 2 for 6 orders at limit 5), and it is the
\* total_pages of the envelope.
C2_TotalPagesIsCeil ==
    pages.total_pages # <<>> =>
        LET p == pages.total_pages[1]
            t == pages.total_orders
            l == pages.limit
        IN /\ p >= 0
           /\ p * l >= t
           /\ \A q \in 0..(p - 1) : q * l < t
           /\ (t = 0 => p = 0)
           /\ (t = 6 /\ l = 5 => p = 2)

C2_Witness ==
    /\ pages.total_orders = 6 /\ pages.limit = 5
    /\ pages.total_pages = <<2>>

C3_Rank(order_id) == Cardinality({id \in OrderIds : id < order_id})

\* C3: list_order_views(page, limit) asks for skip = (page - 1) * limit and gets
\* the orders at positions skip .. skip + limit - 1 of the stored orders by
\* ascending id: at most limit of them, none when skip is at or past the number
\* stored, and every order of a later page has a greater id than every order of
\* an earlier page at the same limit.
C3_PageOfStoredOrders ==
    [][(req.pc = "idle" /\ req'.kind = "list" /\ req'.pc = "batch")
       => LET skip == (req'.page - 1) * req'.limit
              got == req'.data
          IN /\ Len(got) <= req'.limit
             /\ Len(got) = Min(req'.limit, Max(0, Cardinality(OrderIds) - skip))
             /\ (skip >= Cardinality(OrderIds) => got = <<>>)
             /\ \A i \in 1..Len(got) :
                   /\ got[i].id \in OrderIds
                   /\ C3_Rank(got[i].id) = skip + i - 1
                   /\ got[i] = DumpOrder(got[i].id, orders[got[i].id])
             /\ \A later \in 1..MaxPage :
                   later > req'.page =>
                       \A i \in 1..Len(got) :
                           \A o \in Range(list_orders((later - 1) * req'.limit, req'.limit)) :
                               o.id > got[i].id]_vars

C3_Witness ==
    /\ req.kind = "list" /\ req.pc = "batch"
    /\ req.page = 2 /\ req.limit = 1
    /\ Len(req.data) = 1 /\ req.data[1].id = 2
    /\ OrderIds = {1, 2}

C4_IsFixedPoint(s, cents) ==
    /\ Len(s) >= 4
    /\ s[Len(s) - 2] = "."
    /\ \A i \in (1..Len(s)) \ {Len(s) - 2} : s[i] \in Range(DigitChars)
    /\ CharsToNat(s, 1, Len(s) - 3, 0) * 100 + CharsToNat(s, Len(s) - 1, Len(s), 0) = cents
    /\ (cents = 9999 => s = <<"9", "9", ".", "9", "9">>)
    /\ (cents = 599 => s = <<"5", ".", "9", "9">>)

\* C4: a successful create_order publishes exactly one order_created event whose
\* payload has the id and the detail rows (id, product_id, fixed-point price,
\* quantity) of the persisted order the call returns, in insertion order; a call
\* that persists no order publishes nothing.
C4_EventMatchesPersistedOrder ==
    [][/\ (nextOrderId' # nextOrderId =>
            LET id == nextOrderId
                rows == orders'[id]
                returned == ret'.value[1]
                event == events'[Len(events')]
            IN /\ events' = Append(events, event)
               /\ id \in DOMAIN orders'
               /\ ret'.op = "create_order" /\ ret'.status = "ok"
               /\ event[1] = "order_created"
               /\ DOMAIN event[2] = {"order"}
               /\ event[2].order = returned
               /\ returned.id = id
               /\ Len(returned.order_details) = Len(rows)
               /\ Len(rows) = Len(ret'.arg[1])
               /\ \A i \in 1..Len(rows) :
                     /\ returned.order_details[i].id = rows[i].id
                     /\ returned.order_details[i].id = nextDetailId + i - 1
                     /\ returned.order_details[i].product_id = rows[i].product_id
                     /\ returned.order_details[i].product_id = ret'.arg[1][i].product_id
                     /\ returned.order_details[i].quantity = rows[i].quantity
                     /\ C4_IsFixedPoint(returned.order_details[i].price, rows[i].price))
       /\ (nextOrderId' = nextOrderId => events' = events)
       /\ (DOMAIN orders' \subseteq DOMAIN orders => events' = events)]_vars

C4_Witness ==
    /\ ret.op = "create_order" /\ ret.status = "ok"
    /\ Len(events) = 2
    /\ events[2][2].order = ret.value[1]
    /\ ret.value[1].id = 2
    /\ Len(ret.value[1].order_details) = 2
    /\ ret.value[1].order_details[1].product_id = "the_enigma"
    /\ ret.value[1].order_details[2].product_id = "the_odyssey"

C5_GatewayPersists ==
    /\ req.kind = "create" /\ req.pc = "validated"
    /\ req'.pc = "done"

\* C5 (as claimed): every order persisted through create_order_view has only
\* product_ids that are in the catalog at the moment the order is persisted, also
\* when product deletions interleave between the validation and the create call.
C5_ProductsExistWhenPersisted ==
    [][C5_GatewayPersists =>
          \A i \in 1..Len(orders'[nextOrderId]) :
              orders'[nextOrderId][i].product_id \in products]_vars

\* C5 (amended): every order persisted through create_order_view has only
\* product_ids the batch list returned to the validation call, and those were in
\* the catalog at the moment of that call.
C5_ProductsExistedWhenValidated ==
    [][/\ (req.pc = "idle" /\ req'.kind = "create" =>
              Range(req'.valid_product_ids) = ProductIdsOf(req'.order_data) \cap products)
       /\ (C5_GatewayPersists =>
              /\ nextOrderId \in DOMAIN orders'
              /\ Len(orders'[nextOrderId]) = Len(req.order_data)
              /\ \A i \in 1..Len(orders'[nextOrderId]) :
                    /\ orders'[nextOrderId][i].product_id = req.order_data[i].product_id
                    /\ orders'[nextOrderId][i].product_id \in Range(req.valid_product_ids))]_vars

C5_Witness ==
    /\ req.kind = "create" /\ req.pc = "done"
    /\ req.response[1] \in OrderIds
    /\ Len(orders[req.response[1]]) = 2
    /\ \E i \in 1..2 : orders[req.response[1]][i].product_id \notin products

\* C6: get_order of an id that is not stored fails with OrderNotFound and the
\* message "Order with id {id} not found"; get_order_view propagates it, issues
\* no product fetch and returns no order data.
C6_MissingOrderPropagates ==
    [][/\ (req.pc = "idle" /\ req'.kind = "get" /\ req'.order_id \notin OrderIds =>
              /\ req'.pc = "failed"
              /\ req'.error.type = "OrderNotFound"
              /\ req'.error.message
                   = "Order with id " \o ToString(req'.order_id) \o " not found"
              /\ (req'.order_id = 1 => req'.error.message = "Order with id 1 not found")
              /\ req'.calls = {"orders.get_order"}
              /\ req'.data = <<>>
              /\ req'.response = <<>>)
       /\ (req.kind = "get" /\ req.pc = "failed" /\ RequestStep => req' = IdleReq)]_vars

C6_Witness ==
    /\ req.kind = "get" /\ req.pc = "failed"
    /\ req.order_id = 1
    /\ req.error.message = "Order with id 1 not found"
    /\ nextOrderId > 1
    /\ OrderIds = {2}

\* C7: delete_order of a stored order removes it and its lines (count_orders one
\* less, get_order then fails with OrderNotFound, every other order unchanged);
\* delete_order of an id that is not stored raises nothing and changes nothing.
C7_DeleteRemovesOnlyThatOrder ==
    [][ret'.op = "delete_order" =>
          LET id == ret'.arg[1]
          IN /\ ret'.status = "ok"
             /\ id \notin DOMAIN orders'
             /\ DOMAIN orders' = OrderIds \ {id}
             /\ \A other \in DOMAIN orders' : orders'[other] = orders[other]
             /\ (id \in OrderIds =>
                    Cardinality(DOMAIN orders') = Cardinality(OrderIds) - 1)
             /\ (id \notin OrderIds => orders' = orders)
             /\ nextOrderId' = nextOrderId /\ nextDetailId' = nextDetailId
             /\ events' = events]_vars

C7_Witness ==
    /\ ret.op = "delete_order" /\ ret.arg = <<1>>
    /\ OrderIds = {2}
    /\ Len(orders[2]) = 2
    /\ get_order(1).error = OrderNotFoundError(1)

C8_Enriched(item) ==
    /\ {"product", "image"} \subseteq DOMAIN item
    /\ item.product.id = item.product_id

\* C8: aggregation is all or nothing: a line whose product is missing when it is
\* fetched fails get_order_view / list_order_views with ProductNotFound at that
\* first missing product and no order data is returned; when every product is
\* found, every line of every returned order carries product and image.
C8_AllOrNothing ==
    [][/\ (req.kind \in {"get", "list"} /\ req.pc = "enrich" /\ RequestStep =>
              LET product_id == ItemAt(req.data, ItemPositions(req.data, 1)[req.ii]).product_id
              IN /\ (product_id \notin products =>
                        /\ req'.pc = "failed"
                        /\ req'.error.type = "ProductNotFound"
                        /\ req'.error.message = "Product Id " \o product_id
                        /\ req'.response = <<>>)
                 /\ (product_id \in products => req'.pc # "failed"))
       /\ (req.kind \in {"get", "list"} /\ req.pc = "failed" /\ RequestStep =>
              req' = IdleReq)
       /\ (req'.kind \in {"get", "list"} /\ req'.pc = "failed" => req'.response = <<>>)
       /\ (req'.kind \in {"get", "list"} /\ req'.pc = "done" =>
              LET returned == IF req'.kind = "get" THEN req'.response
                              ELSE req'.response[1].orders
              IN \A o \in 1..Len(returned) :
                    \A i \in 1..Len(returned[o].order_details) :
                        C8_Enriched(returned[o].order_details[i]))]_vars

C8_Witness ==
    /\ req.kind = "list" /\ req.pc = "failed"
    /\ req.error.type = "ProductNotFound"
    /\ req.ii > 1
    /\ req.response = <<>>
    /\ C8_Enriched(ItemAt(req.data, ItemPositions(req.data, 1)[1]))

\* what update_order does to the store and what it answers, whatever the payload
C9_PayloadListsStoredLines(payload) ==
    /\ Len(payload.order_details) = Len(orders[payload.id])
    /\ \A i \in 1..Len(payload.order_details) :
          /\ payload.order_details[i].id = orders[payload.id][i].id
          /\ payload.order_details[i].product_id = orders[payload.id][i].product_id

C9_Effects(payload) ==
    LET sent == payload.order_details
    IN /\ DOMAIN orders' = OrderIds
       /\ nextOrderId' = nextOrderId /\ nextDetailId' = nextDetailId
       /\ events' = events
       /\ \A other \in OrderIds \ {payload.id} : orders'[other] = orders[other]
       /\ (payload.id \notin OrderIds =>
              /\ ret'.status = "error"
              /\ ret'.error.type = "OrderNotFound"
              /\ ret'.value = <<>>
              /\ orders' = orders)
       /\ (payload.id \in OrderIds =>
              LET before == orders[payload.id]
                  after == orders'[payload.id]
              IN /\ ret'.status = "ok"
                 /\ ret'.value[1] = DumpOrder(payload.id, after)
                 /\ Len(after) = Len(before)
                 /\ \A i \in 1..Len(before) :
                       /\ after[i].id = before[i].id
                       /\ after[i].product_id = before[i].product_id
                       /\ \A j \in 1..Len(sent) :
                             sent[j].id = before[i].id =>
                                 /\ after[i].quantity = sent[j].quantity
                                 /\ FormatPrice(after[i].price) = sent[j].price
                       /\ ((\A j \in 1..Len(sent) : sent[j].id # before[i].id) =>
                              after[i] = before[i]))

C10_EnvelopeConsistent ==
    (req.kind = "list" /\ req.pc = "done") =>
        LET e == req.response[1]
        IN /\ Len(e.orders)
                = Min(req.limit, Max(0, e.total_orders - (req.page - 1) * req.limit))
           /\ Len(e.orders) <= e.total_orders

\* C10 (amended): len(orders) = min(limit, max(0, n - (page-1)*limit)) for the
\* number n of orders stored at the moment of the list_orders call, and
\* total_orders is the number stored at the moment of the later count_orders
\* call; the two moments differ, so creations and deletions in between make
\* total_orders differ from n.
C10_EnvelopeOfTwoMoments ==
    [][/\ (req.pc = "idle" /\ req'.kind = "list" =>
              Len(req'.data)
                 = Min(req'.limit,
                       Max(0, Cardinality(OrderIds) - (req'.page - 1) * req'.limit)))
       /\ (req.kind = "list" /\ RequestStep /\ req'.pc # "idle" =>
              /\ Len(req'.data) = Len(req.data)
              /\ req'.page = req.page /\ req'.limit = req.limit)
       /\ (req.kind = "list" /\ req.pc = "count" /\ req'.pc = "done" =>
              LET e == req'.response[1]
              IN /\ e.total_orders = Cardinality(OrderIds)
                 /\ e.page = req.page
                 /\ Len(e.orders) = Len(req.data)
                 /\ e.total_pages * req.limit >= e.total_orders
                 /\ (e.total_pages - 1) * req.limit < e.total_orders)]_vars

C10_Witness ==
    /\ req.kind = "list" /\ req.pc = "done"
    /\ Len(req.response[1].orders) = 2
    /\ req.response[1].total_orders = 1
    /\ req.response[1].total_pages = 1

====
